---- MODULE Spec2Model ----
(***************************************************************************)
(* Model of src/worker.js: the edge request handler that rewrites          *)
(* /uploads/... requests to a GitHub delivery URL, fetches it, retries     *)
(* once under wp-content/ on a 404 and relays the response with CORS and   *)
(* cache headers.                                                          *)
(*                                                                         *)
(* Strings are sequences of pieces.  A piece is a single "/", a single     *)
(* "?", or a maximal run of characters that holds neither, so startsWith,  *)
(* endsWith, substring(1) and concatenation act on pieces exactly as the   *)
(* JavaScript operations act on the characters.                            *)
(***************************************************************************)
EXTENDS Integers, Sequences, FiniteSets, TLC

VARIABLES config, request, pc, fetches, inflight, response, altResponse,
          returned, unhandled

vars == <<config, request, pc, fetches, inflight, response, altResponse,
          returned, unhandled>>

(* Largest number of pieces after the /uploads/ prefix of an inbound path. *)
MaxRest == 3

----------------------------------------------------------------------------
(* String operations of JavaScript, on piece sequences.                    *)

StartsWith(s, p) == Len(s) >= Len(p) /\ SubSeq(s, 1, Len(p)) = p

EndsWith(s, p) == Len(s) >= Len(p) /\ SubSeq(s, Len(s) - Len(p) + 1, Len(s)) = p

Substring1(s) == SubSeq(s, 2, Len(s))

----------------------------------------------------------------------------
(* JavaScript values that the configuration lookup can yield: a string, a  *)
(* function inherited from Object.prototype, or undefined.                 *)

Str(s) == [type |-> "string", val |-> s]

Undefined == [type |-> "undefined", val |-> <<>>]

Inherited(name) == [type |-> "object", val |-> <<name>>]

Truthy(v) == v.type = "object" \/ (v.type = "string" /\ v.val # <<>>)

----------------------------------------------------------------------------
(* Static configuration.                                                   *)

GITHUB_USERNAME == "crabvn"

GITHUB_REPO == "uniquepetswiki-uploads"

GITHUB_BRANCH == "main"

HOSTING_METHOD == "jsdelivr"

BASE_URLS ==
    [raw |-> <<"https:", "/", "/", "raw.githubusercontent.com", "/",
               GITHUB_USERNAME, "/", GITHUB_REPO, "/", GITHUB_BRANCH>>,
     pages |-> <<"https:", "/", "/", "crabvn.github.io", "/", GITHUB_REPO>>,
     jsdelivr |-> <<"https:", "/", "/", "cdn.jsdelivr.net", "/", "gh", "/",
                    GITHUB_USERNAME, "/", "uniquepetswiki-uploads@main">>]

(* The configuration as shipped.                                           *)
ShippedConfig == [HOSTING_METHOD |-> HOSTING_METHOD, BASE_URLS |-> BASE_URLS]

(* Names every object literal inherits from Object.prototype.              *)
ObjectPrototypeKeys == {"constructor", "toString", "hasOwnProperty"}

(* BASE_URLS[key]: the own property, else the inherited one, else          *)
(* undefined.                                                              *)
Lookup(urls, key) ==
    IF key \in DOMAIN urls THEN Str(urls[key])
    ELSE IF key \in ObjectPrototypeKeys THEN Inherited(key)
    ELSE Undefined

(* return BASE_URLS[HOSTING_METHOD] || BASE_URLS.jsdelivr                  *)
getBaseUrl(cfg) ==
    IF Truthy(Lookup(cfg.BASE_URLS, cfg.HOSTING_METHOD))
    THEN Lookup(cfg.BASE_URLS, cfg.HOSTING_METHOD)
    ELSE Str(cfg.BASE_URLS.jsdelivr)

----------------------------------------------------------------------------
(* Path translation.                                                       *)

UploadsPrefix == <<"/", "uploads", "/">>

(* path.replace(/^\/uploads\//, '')                                        *)
getGitHubPath(path) ==
    IF StartsWith(path, UploadsPrefix)
    THEN SubSeq(path, Len(UploadsPrefix) + 1, Len(path))
    ELSE path

StripLeadingSlash(p) == IF StartsWith(p, <<"/">>) THEN Substring1(p) ELSE p

(* Fault variant: the leading slash of the path is kept.                   *)
JoinNoStrip(baseUrl, p) ==
    IF EndsWith(baseUrl, <<"/">>) THEN baseUrl \o p ELSE baseUrl \o <<"/">> \o p

(* cleanPath and targetUrlString / cleanAltPath and altUrlString: drop one *)
(* leading slash of the path, add a slash unless the base ends with one.   *)
JoinUrl(baseUrl, p) ==
    IF EndsWith(baseUrl, <<"/">>)
    THEN baseUrl \o StripLeadingSlash(p)
    ELSE baseUrl \o <<"/">> \o StripLeadingSlash(p)

(* 'wp-content' + url.pathname                                             *)
AltPath(pathname) == <<"wp-content">> \o pathname

----------------------------------------------------------------------------
(* URL objects: new URL(string), the pathname and search accessors and     *)
(* toString.  The origin is the four pieces scheme, "/", "/", host.        *)

OriginLen == 4

NoQuery == [present |-> FALSE, val |-> <<>>]

RECURSIVE IndexOf(_, _, _)
IndexOf(s, piece, from) ==
    IF from > Len(s) THEN 0
    ELSE IF s[from] = piece THEN from
    ELSE IndexOf(s, piece, from + 1)

(* new URL(s): the text up to the first "?" is origin and path (an empty   *)
(* path becomes "/"), the text after it is the query.                      *)
ParseURL(s) ==
    LET q == IndexOf(s, "?", 1)
        front == IF q = 0 THEN s ELSE SubSeq(s, 1, q - 1)
        path == SubSeq(front, OriginLen + 1, Len(front))
    IN [origin |-> SubSeq(front, 1, OriginLen),
        pathname |-> IF path = <<>> THEN <<"/">> ELSE path,
        query |-> IF q = 0 THEN NoQuery
                  ELSE [present |-> TRUE, val |-> SubSeq(s, q + 1, Len(s))]]

(* url.search: "" for a missing or empty query, else "?" and the query.    *)
SearchGetter(u) ==
    IF ~u.query.present \/ u.query.val = <<>> THEN <<>>
    ELSE <<"?">> \o u.query.val

(* url.search = v: "" removes the query, a leading "?" is dropped.         *)
SearchSetter(u, v) ==
    IF v = <<>> THEN [u EXCEPT !.query = NoQuery]
    ELSE [u EXCEPT !.query =
            [present |-> TRUE,
             val |-> IF StartsWith(v, <<"?">>) THEN Substring1(v) ELSE v]]

(* url.toString()                                                          *)
UrlToString(u) ==
    u.origin \o u.pathname \o
    (IF u.query.present THEN <<"?">> \o u.query.val ELSE <<>>)

----------------------------------------------------------------------------
(* Header bags.  A Headers object maps each lower-case name to its value,  *)
(* written as the sequence of its ", "-separated members (<<>> when the    *)
(* header is absent), so appending to a name that is present concatenates. *)
(* A plain object maps each of its keys to a value (<<>> when it has no    *)
(* such key); its keys are case-sensitive.                                 *)

NameSet ==
    {"access-control-allow-methods", "access-control-allow-origin",
     "cache-control", "content-type", "user-agent"}

(* The keys the object literals of the handler write.                      *)
LiteralKeys ==
    {"Access-Control-Allow-Origin", "Access-Control-Allow-Methods",
     "Cache-Control", "User-Agent"}

NoHeaders == [n \in NameSet |-> <<>>]

EmptyObject == [k \in NameSet \cup LiteralKeys |-> <<>>]

(* The byte-lower-casing of a header name by the Headers constructor.      *)
Lower(key) ==
    CASE key = "Access-Control-Allow-Origin" -> "access-control-allow-origin"
      [] key = "Access-Control-Allow-Methods" -> "access-control-allow-methods"
      [] key = "Cache-Control" -> "cache-control"
      [] key = "User-Agent" -> "user-agent"
      [] OTHER -> key

(* Object.fromEntries(headers): one entry per header, keyed by the         *)
(* lower-case name.                                                        *)
FromEntries(h) ==
    [k \in NameSet \cup LiteralKeys |-> IF k \in NameSet THEN h[k] ELSE <<>>]

(* { ...obj, key: value }: sets the entry of exactly that key.             *)
ObjSet(obj, key, value) == [obj EXCEPT ![key] = value]

(* new Headers(obj): appends every entry of the object under its           *)
(* lower-cased key, in insertion order: the lower-case keys spread from a  *)
(* Headers object come before the keys of the literal.                     *)
NewHeaders(obj) ==
    [n \in NameSet |->
        obj[n] \o (IF \E k \in LiteralKeys : Lower(k) = n
                   THEN obj[CHOOSE k \in LiteralKeys : Lower(k) = n]
                   ELSE <<>>)]

HeadersAppend(h, name, value) == [h EXCEPT ![name] = @ \o value]

UserAgent == <<"Mozilla/5.0 (compatible; CloudflareWorker/1.0)">>

(* { ...Object.fromEntries(request.headers), 'User-Agent': ... }           *)
OutboundHeaders(h) == ObjSet(FromEntries(h), "User-Agent", UserAgent)

AllowOrigin == <<"*">>

AllowMethods == <<"GET", "HEAD", "OPTIONS">>

CacheControl == <<"public", "max-age=31536000", "immutable">>

(* { ...Object.fromEntries(response.headers), three fixed entries }        *)
RelayHeaders(h) ==
    ObjSet(ObjSet(ObjSet(FromEntries(h),
                         "Access-Control-Allow-Origin", AllowOrigin),
                  "Access-Control-Allow-Methods", AllowMethods),
           "Cache-Control", CacheControl)

----------------------------------------------------------------------------
(* Bodies, requests and responses.                                         *)

NullBody == [kind |-> "null", val |-> <<>>]

TextBody(s) == [kind |-> "text", val |-> s]

StreamBody(id) == [kind |-> "stream", val |-> <<id>>]

(* new Request(url, { method, headers, body })                             *)
NewRequest(url, method, obj, body) ==
    [url |-> url, method |-> method, headers |-> NewHeaders(obj), body |-> body]

(* new Response(body, { status, headers }): a text body brings its         *)
(* content type when the headers name none.                                *)
NewResponse(body, status, obj) ==
    LET h == NewHeaders(obj)
    IN [status |-> status,
        headers |-> IF body.kind = "text" /\ h["content-type"] = <<>>
                    THEN HeadersAppend(h, "content-type",
                                       <<"text/plain;charset=UTF-8">>)
                    ELSE h,
        body |-> body]

(* new Response('Not Found', { status: 404 })                              *)
NotFoundResponse == NewResponse(TextBody(<<"Not Found">>), 404, EmptyObject)

(* Fault variant: the body leaves out the error's message.                 *)
ErrorResponseGeneric(message) ==
    NewResponse(TextBody(<<"Error fetching from GitHub">>), 500, EmptyObject)

(* new Response(`Error fetching from GitHub: ${error.message}`, 500)       *)
ErrorResponse(message) ==
    NewResponse(TextBody(<<"Error fetching from GitHub: ">> \o message), 500, EmptyObject)

(* new Response(r.body, { status: r.status, headers: {...} })              *)
RelayResponse(r) == NewResponse(r.body, r.status, RelayHeaders(r.headers))

----------------------------------------------------------------------------
(* The inputs: inbound requests and the outcomes of an outbound fetch.     *)

Origin == <<"https:", "/", "/", "media.uniquepetswiki.com">>

Pieces == {"/", "a.jpg"}

(* No two runs of non-slash characters are adjacent.                       *)
Canonical(s) == \A i \in 1..(Len(s) - 1) : s[i] = "/" \/ s[i + 1] = "/"

Rests == {s \in UNION {[1..n -> Pieces] : n \in 0..MaxRest} : Canonical(s)}

InsidePaths == {UploadsPrefix \o r : r \in Rests}

OutsidePaths ==
    {<<>>, <<"/">>, <<"/", "uploads">>, <<"/", "Uploads", "/", "a.jpg">>,
     <<"/", "uploadsx", "/", "a.jpg">>,
     <<"/", "wp-content", "/", "uploads", "/", "a.jpg">>}

Queries ==
    {<<>>, <<"?">>, <<"?", "v=1">>, <<"?", "p=", "/", "x", "?", "y">>}

InboundHeaders ==
    {NoHeaders,
     [NoHeaders EXCEPT !["user-agent"] = <<"curl/8.0">>,
                       !["cache-control"] = <<"no-cache">>]}

Methods == {"GET", "HEAD", "POST"}

Requests ==
    {[url |-> Origin \o p \o q, method |-> m, headers |-> h,
      body |-> IF m = "POST" THEN StreamBody("inbound") ELSE NullBody] :
        p \in InsidePaths \cup OutsidePaths, q \in Queries, m \in Methods,
        h \in InboundHeaders}

(* One request per path, for the runs that vary the configuration.         *)
PlainRequests ==
    {[url |-> Origin \o p, method |-> "GET", headers |-> NoHeaders,
      body |-> NullBody] : p \in InsidePaths \cup OutsidePaths}

Statuses == {200, 204, 301, 404, 500}

UpstreamHeaders ==
    {NoHeaders,
     [NoHeaders EXCEPT !["content-type"] = <<"image/jpeg">>],
     [NoHeaders EXCEPT !["content-type"] = <<"image/jpeg">>,
                       !["cache-control"] = <<"max-age=600">>,
                       !["access-control-allow-origin"] = <<"*">>]}

ErrorMessages == {<<"internal error">>, <<"Network connection lost.">>}

NoOutcome ==
    [kind |-> "none", status |-> 0, headers |-> NoHeaders, body |-> NullBody,
     message |-> <<>>]

(* What the fetch numbered id can resolve to, and reject with.             *)
Resolutions(id) ==
    {[kind |-> "response", status |-> st, headers |-> h,
      body |-> IF st = 204 THEN NullBody ELSE StreamBody(id),
      message |-> <<>>] : st \in Statuses, h \in UpstreamHeaders}

Rejections ==
    {[kind |-> "error", status |-> 0, headers |-> NoHeaders, body |-> NullBody,
      message |-> m] : m \in ErrorMessages}

HostingMethods ==
    {"raw", "pages", "jsdelivr", "cdn", "github", ""} \cup ObjectPrototypeKeys

WithTrailingSlash(urls) == [k \in DOMAIN urls |-> urls[k] \o <<"/">>]

Configs ==
    {[HOSTING_METHOD |-> m, BASE_URLS |-> u] :
        m \in HostingMethods, u \in {BASE_URLS, WithTrailingSlash(BASE_URLS)}}

----------------------------------------------------------------------------
(* The handler.  Its position is pc: "start" before it runs,               *)
(* "awaitPrimary" and "awaitAlt" at the two awaits, "done" after it        *)
(* returned or threw.                                                      *)

(* Fault variant: the prefix test leaves out the trailing slash.           *)
HandledWithoutSlash(pathname) == StartsWith(pathname, <<"/", "uploads">>)

(* url.pathname.startsWith('/uploads/')                                    *)
Handled(pathname) == StartsWith(pathname, UploadsPrefix)

(* Fault variant: the inbound query is not copied.                         *)
OutboundUrlWithoutSearch(baseUrl, p, search) ==
    UrlToString(ParseURL(JoinUrl(baseUrl, p)))

(* targetUrl / altUrl: new URL(joined); url.search = inbound search;       *)
(* toString().                                                             *)
OutboundUrl(baseUrl, p, search) ==
    UrlToString(SearchSetter(ParseURL(JoinUrl(baseUrl, p)), search))

(* newRequest                                                              *)
PrimaryRequest(baseUrl, url, req) ==
    NewRequest(OutboundUrl(baseUrl, getGitHubPath(url.pathname), SearchGetter(url)),
               req.method, OutboundHeaders(req.headers), req.body)

(* altRequest                                                              *)
AltRequest(baseUrl, url, req) ==
    NewRequest(OutboundUrl(baseUrl, AltPath(url.pathname), SearchGetter(url)),
               req.method, OutboundHeaders(req.headers), NullBody)

(* Fault variant: every error status triggers the fallback.                *)
ShouldFallbackOnAnyError(r) == r.status >= 400

(* response.status === 404                                                 *)
ShouldFallback(r) == r.status = 404

(* Fault variant: every 2xx fallback status is accepted.                   *)
AltAcceptedAnySuccess(r) == r.status >= 200 /\ r.status < 300

(* altResponse.status === 200                                              *)
AltAccepted(r) == r.status = 200

(* The part of fetch() up to the first await, or to its return or throw.   *)
HandleRequest ==
    /\ pc = "start"
    /\ \E url \in {ParseURL(request.url)}, baseUrl \in {getBaseUrl(config)} :
          IF ~Handled(url.pathname)
          THEN /\ returned' = Append(returned, NotFoundResponse)
               /\ pc' = "done"
               /\ UNCHANGED <<fetches, inflight, unhandled>>
          ELSE IF baseUrl.type # "string"
          THEN /\ unhandled' = Append(unhandled, <<"TypeError">>)
               /\ pc' = "done"
               /\ UNCHANGED <<fetches, inflight, returned>>
          ELSE /\ \E newRequest \in {PrimaryRequest(baseUrl.val, url, request)} :
                    fetches' = Append(fetches, newRequest)
               /\ inflight' = inflight \cup {Len(fetches) + 1}
               /\ pc' = "awaitPrimary"
               /\ UNCHANGED <<returned, unhandled>>
    /\ UNCHANGED <<config, request, response, altResponse>>

(* await fetch(newRequest) resolves; the handler runs to the next await or *)
(* to its return.                                                          *)
PrimaryResolves ==
    /\ pc = "awaitPrimary"
    /\ \E r \in Resolutions("primary") :
        /\ response' = r
        /\ IF ShouldFallback(r)
           THEN /\ \E altRequest \in {AltRequest(getBaseUrl(config).val,
                                                  ParseURL(request.url), request)} :
                     fetches' = Append(fetches, altRequest)
                /\ inflight' = (inflight \ {1}) \cup {Len(fetches) + 1}
                /\ pc' = "awaitAlt"
                /\ UNCHANGED returned
           ELSE /\ \E newResponse \in {RelayResponse(r)} :
                     returned' = Append(returned, newResponse)
                /\ inflight' = inflight \ {1}
                /\ pc' = "done"
                /\ UNCHANGED fetches
    /\ UNCHANGED <<config, request, altResponse, unhandled>>

(* await fetch(newRequest) rejects inside the try block.                   *)
PrimaryRejects ==
    /\ pc = "awaitPrimary"
    /\ \E e \in Rejections :
        /\ response' = e
        /\ \E errorResponse \in {ErrorResponse(e.message)} :
             returned' = Append(returned, errorResponse)
    /\ inflight' = inflight \ {1}
    /\ pc' = "done"
    /\ UNCHANGED <<config, request, fetches, altResponse, unhandled>>

(* await fetch(altRequest) resolves.                                       *)
AltResolves ==
    /\ pc = "awaitAlt"
    /\ \E r \in Resolutions("alt") :
        /\ altResponse' = r
        /\ \E newResponse \in {IF AltAccepted(r) THEN RelayResponse(r)
                                ELSE RelayResponse(response)} :
             returned' = Append(returned, newResponse)
    /\ inflight' = inflight \ {2}
    /\ pc' = "done"
    /\ UNCHANGED <<config, request, fetches, response, unhandled>>

(* Fault variant: the fallback fetch sits outside the try block.           *)
AltErrorPropagates(e) ==
    /\ unhandled' = Append(unhandled, e.message)
    /\ UNCHANGED returned

(* The try block of lines 88-138 encloses await fetch(altRequest): the     *)
(* catch clause handles its rejection.                                     *)
AltErrorCaught(e) ==
    /\ \E errorResponse \in {ErrorResponse(e.message)} :
         returned' = Append(returned, errorResponse)
    /\ UNCHANGED unhandled

(* await fetch(altRequest) rejects.                                        *)
AltRejects ==
    /\ pc = "awaitAlt"
    /\ \E e \in Rejections :
        /\ altResponse' = e
        /\ AltErrorCaught(e)
    /\ inflight' = inflight \ {2}
    /\ pc' = "done"
    /\ UNCHANGED <<config, request, fetches, response>>

StateInit ==
    /\ pc = "start"
    /\ fetches = <<>>
    /\ inflight = {}
    /\ response = NoOutcome
    /\ altResponse = NoOutcome
    /\ returned = <<>>
    /\ unhandled = <<>>

(* One inbound request to the worker as shipped.                           *)
Init ==
    /\ config = ShippedConfig
    /\ request \in Requests
    /\ StateInit

(* One inbound request to the worker under each configuration.             *)
ConfigInit ==
    /\ config \in Configs
    /\ request \in PlainRequests
    /\ StateInit

Next ==
    \/ HandleRequest
    \/ PrimaryResolves
    \/ PrimaryRejects
    \/ AltResolves
    \/ AltRejects

Spec == Init /\ [][Next]_vars

ConfigSpec == ConfigInit /\ [][Next]_vars

(* The runtime runs the handler as soon as it can, and every outbound      *)
(* fetch that was issued settles.                                          *)
FairSpec ==
    /\ Init /\ [][Next]_vars
    /\ WF_vars(HandleRequest)
    /\ WF_vars(PrimaryResolves \/ PrimaryRejects)
    /\ WF_vars(AltResolves \/ AltRejects)

----------------------------------------------------------------------------
(* Vocabulary of the properties, stated on the raw strings of the run.     *)

(* The inbound path, and whether it lies under /uploads/.                  *)
InboundPath ==
    LET rest == SubSeq(request.url, Len(Origin) + 1, Len(request.url))
        q == IndexOf(rest, "?", 1)
        path == IF q = 0 THEN rest ELSE SubSeq(rest, 1, q - 1)
    IN IF path = <<>> THEN <<"/">> ELSE path

InPrefix ==
    /\ Len(InboundPath) >= 3
    /\ InboundPath[1] = "/" /\ InboundPath[2] = "uploads" /\ InboundPath[3] = "/"

(* The text s holds the text p.                                             *)
RECURSIVE Contains(_, _)
Contains(s, p) ==
    IF Len(s) < Len(p) THEN FALSE
    ELSE SubSeq(s, 1, Len(p)) = p \/ Contains(SubSeq(s, 2, Len(s)), p)

(* The text of a URL string after its first "?", and the text before it.   *)
QueryString(s) ==
    LET q == IndexOf(s, "?", 1)
    IN IF q = 0 THEN <<>> ELSE SubSeq(s, q + 1, Len(s))

UrlFront(s) ==
    LET q == IndexOf(s, "?", 1)
    IN IF q = 0 THEN s ELSE SubSeq(s, 1, q - 1)

RECURSIVE DropLeadingSlashes(_)
DropLeadingSlashes(s) ==
    IF s # <<>> /\ s[1] = "/" THEN DropLeadingSlashes(SubSeq(s, 2, Len(s))) ELSE s

RECURSIVE DropTrailingSlashes(_)
DropTrailingSlashes(s) ==
    IF s # <<>> /\ s[Len(s)] = "/"
    THEN DropTrailingSlashes(SubSeq(s, 1, Len(s) - 1)) ELSE s

(* target is base and rel with exactly one slash between them.             *)
OneSlashJoin(base, rel, target) ==
    target = DropTrailingSlashes(base) \o <<"/">> \o DropLeadingSlashes(rel)

OverrideNames ==
    {"access-control-allow-origin", "access-control-allow-methods", "cache-control"}

(* The upstream outcome the returned response was relayed from.            *)
RelayedFrom == IF altResponse.status = 200 THEN altResponse ELSE response

OneReturned == Len(returned) = 1 /\ unhandled = <<>>

----------------------------------------------------------------------------
(* Properties.                                                             *)

(* C1, as stated: a request whose path does not start with /uploads/ is    *)
(* answered with status 404, an empty body and no headers.                 *)
C1_RejectedWithEmptyBody ==
    (pc = "done" /\ ~InPrefix) =>
        /\ OneReturned
        /\ returned[1].status = 404
        /\ returned[1].body.val = <<>>
        /\ returned[1].headers = NoHeaders

(* C1, amended: a request whose path does not start with /uploads/,        *)
(* whatever its method and headers, is answered without any outbound      *)
(* fetch with status 404, the body text "Not Found" and none of the        *)
(* CORS/cache headers: its only header is the content type of that text.   *)
C1_RejectedWithNotFoundText ==
    (pc = "done" /\ ~InPrefix) =>
        /\ OneReturned
        /\ fetches = <<>>
        /\ returned[1].status = 404
        /\ returned[1].body = [kind |-> "text", val |-> <<"Not Found">>]
        /\ returned[1].headers =
             [NoHeaders EXCEPT !["content-type"] = <<"text/plain;charset=UTF-8">>]

C1_Witness ==
    /\ pc = "done" /\ ~InPrefix
    /\ InboundPath = <<"/", "uploads">>
    /\ request.method = "POST"
    /\ request.headers["user-agent"] # <<>>

(* C2: when the primary fetch returned 404 and the fallback fetch          *)
(* returned, the response has the fallback's status and body if the        *)
(* fallback's status is 200, and the primary's status 404 and body for     *)
(* every other fallback status.                                            *)
C2_FallbackChosenByStatus ==
    (pc = "done" /\ response.kind = "response" /\ response.status = 404
        /\ altResponse.kind = "response") =>
        /\ OneReturned
        /\ IF altResponse.status = 200
           THEN returned[1].status = 200 /\ returned[1].body = altResponse.body
           ELSE returned[1].status = 404 /\ returned[1].body = response.body

C2_Witness ==
    /\ pc = "done" /\ response.status = 404
    /\ altResponse.kind = "response" /\ altResponse.status = 204
    /\ returned[1].status = 404

(* C3, as stated: a response relayed from an upstream response carries     *)
(* every other upstream header unchanged and the three fixed headers with  *)
(* exactly the fixed values, also when upstream sent a header of the same  *)
(* name.                                                                   *)
C3_OverridesReplaceUpstream ==
    (pc = "done" /\ response.kind = "response" /\ altResponse.kind # "error") =>
        /\ OneReturned
        /\ returned[1].headers["access-control-allow-origin"] = <<"*">>
        /\ returned[1].headers["access-control-allow-methods"] =
             <<"GET", "HEAD", "OPTIONS">>
        /\ returned[1].headers["cache-control"] =
             <<"public", "max-age=31536000", "immutable">>
        /\ \A n \in NameSet \ OverrideNames :
             returned[1].headers[n] = RelayedFrom.headers[n]

(* C4: when the primary fetch throws, the response has status 500, its     *)
(* body contains the error's message, and only the one fetch was issued.   *)
C4_PrimaryErrorGives500 ==
    (pc = "done" /\ response.kind = "error") =>
        /\ OneReturned
        /\ returned[1].status = 500
        /\ returned[1].body.kind = "text"
        /\ Contains(returned[1].body.val, response.message)
        /\ Len(fetches) = 1
        /\ altResponse.kind = "none"

C4_Witness ==
    /\ pc = "done" /\ response.kind = "error"
    /\ response.message = <<"Network connection lost.">>

(* C5, as stated: when the primary fetch returned 404 and the fallback     *)
(* fetch throws, the error leaves the handler unhandled and no response is *)
(* returned.                                                               *)
C5_FallbackErrorUncaught ==
    (pc = "done" /\ altResponse.kind = "error") =>
        /\ returned = <<>>
        /\ unhandled = <<altResponse.message>>

(* C5, amended: the conversion of a transport error to a 500 response      *)
(* applies to the fallback fetch as well: when the primary fetch returned  *)
(* 404 and the fallback fetch throws, the handler catches the error and    *)
(* returns status 500 with a body that contains the error's message.       *)
C5_FallbackErrorGives500 ==
    (pc = "done" /\ altResponse.kind = "error") =>
        /\ response.status = 404
        /\ OneReturned
        /\ returned[1].status = 500
        /\ returned[1].body.kind = "text"
        /\ Contains(returned[1].body.val, altResponse.message)

C5_Witness ==
    /\ pc = "done" /\ response.status = 404 /\ altResponse.kind = "error"
    /\ Len(fetches) = 2

(* C6: at most two fetches are issued and at most one is in flight; none   *)
(* for a path outside the prefix; otherwise the primary first; the         *)
(* fallback exactly when the primary has returned status 404, and only     *)
(* after it has.                                                           *)
C6_AtMostTwoSequentialFetches ==
    /\ Len(fetches) <= 2
    /\ Cardinality(inflight) <= 1
    /\ inflight \subseteq DOMAIN fetches
    /\ ~InPrefix => fetches = <<>>
    /\ (InPrefix /\ pc # "start") => Len(fetches) >= 1
    /\ Len(fetches) >= 1 => ~Contains(fetches[1].url, <<"wp-content">>)
    /\ Len(fetches) = 2 => Contains(fetches[2].url, <<"wp-content">>)
    /\ Len(fetches) = 2 <=> (response.kind = "response" /\ response.status = 404)
    /\ 1 \in inflight <=> pc = "awaitPrimary"
    /\ 2 \in inflight <=> pc = "awaitAlt"

C6_Witness ==
    /\ pc = "done" /\ Len(fetches) = 2 /\ inflight = {}
    /\ altResponse.kind = "response" /\ altResponse.status = 404

C8_QueryPreserved ==
    \A i \in DOMAIN fetches : QueryString(fetches[i].url) = QueryString(request.url)

C8_Witness ==
    /\ Len(fetches) = 2
    /\ QueryString(request.url) = <<"p=", "/", "x", "?", "y">>

(* C9, as stated: the base delivery URL is the template of the hosting     *)
(* method for raw, pages and jsdelivr, and the jsdelivr template for every *)
(* other value of the hosting method.                                      *)
C9_UnrecognizedMeansCdn ==
    (InPrefix /\ pc # "start") =>
        /\ Len(fetches) >= 1
        /\ StartsWith(fetches[1].url,
              IF config.HOSTING_METHOD \in {"raw", "pages", "jsdelivr"}
              THEN config.BASE_URLS[config.HOSTING_METHOD]
              ELSE config.BASE_URLS.jsdelivr)

(* C10: every request ends with exactly one response returned, never two   *)
(* and never none, given that every fetch issued returns or throws.        *)
C10_ExactlyOneResponse ==
    /\ <>(pc = "done")
    /\ [](pc = "done" => OneReturned)
    /\ [](Len(returned) <= 1)

C10_Witness ==
    /\ pc = "done" /\ Len(returned) = 1
    /\ altResponse.kind = "error"

====
